---- MODULE Spec2Model ----
(***************************************************************************)
(* Spreadsheet-driven curve fitting of backpack/datafit.py: the sheet      *)
(* (Tabular Store), get_parameters, update_model, update_submodels, fit.   *)
(*                                                                         *)
(* Representation.  A data row of the sheet is a record with one field per *)
(* header name ("num" is the '#' column).  A cell holding a number is      *)
(* represented by its decimal text ("5" is 5, "0" is 0, "" is the empty    *)
(* cell), so that '' in p_guess and f'{v}, ' read as in the source.  The   *)
(* '#' cell is an integer (-1 is the empty cell) because the code adds 2   *)
(* to it.  A vary cell is the sequence of its comma separated pieces       *)
(* (vary.split(',')): <<"y">>, <<"n">>, <<"g#1", "a">>.  var_string is the *)
(* sequence of identifiers appended to it, model_string the sequence of    *)
(* its terms  name(x, item, item, ) .                                      *)
(***************************************************************************)
EXTENDS Integers, Sequences, FiniteSets, TLC

(***************************************************************************)
(* Bounds of the model.                                                    *)
(***************************************************************************)
MaxRows == 3

(***************************************************************************)
(* Submodel Registry: the functions f(x, a, b) and g(x, a).                *)
(***************************************************************************)
\* inspect.signature(eval(submodel_name)).parameters
args_expected(name) ==
  CASE name = "f" -> <<"x", "a", "b">>
    [] name = "g" -> <<"x", "a">>

\* submodel.split('#')[0]
submodel_name(submodel) ==
  CASE submodel = "f#1" -> "f"
    [] submodel = "g#1" -> "g"

(***************************************************************************)
(* The rows a sheet may hold when the program opens it.  The derived       *)
(* columns start empty, except in the row whose use the user switched off  *)
(* after a fit had filled them.                                            *)
(***************************************************************************)
UserRow(submodel, arg, use, vary, guess, min, max) ==
  [num |-> -1, submodel |-> submodel, arg |-> arg, use |-> use, vary |-> vary,
   guess |-> guess, min |-> min, max |-> max,
   fitted |-> "", error |-> "", id |-> ""]

RowDomain ==
  { UserRow("f#1", "a", "y", <<"y">>, "1", "0", "10"),
    UserRow("f#1", "a", "y", <<"f#1", "b">>, "7", "", ""),
    UserRow("f#1", "b", "y", <<"n">>, "5", "", ""),
    UserRow("f#1", "b", "y", <<"y">>, "", "", "9"),
    UserRow("f#1", "b", "y", <<"g#1", "a">>, "8", "", ""),
    [UserRow("f#1", "b", "n", <<"y">>, "4", "", "")
       EXCEPT !.fitted = "7", !.error = "2", !.id = "p1"],
    UserRow("g#1", "a", "y", <<"y">>, "2", "", "3"),
    UserRow("g#1", "a", "y", <<"f#1", "a">>, "9", "", ""),
    UserRow("", "", "", <<"">>, "", "", ""),
    UserRow("f#1", "a", "y", <<"n">>, "", "", ""),
    UserRow("g#1", "a", "y", <<"f#1", "b">>, "6", "", "") }

Sheets == UNION { [1..n -> RowDomain] : n \in 1..MaxRows }

Cols == {"num", "submodel", "arg", "use", "vary", "guess", "min", "max",
         "fitted", "error", "id"}

(***************************************************************************)
(* Tabular Store interface.  Row 1 is the header, data row k is row k+1.   *)
(***************************************************************************)
\* sheet.set_cell_value(value, row, col)
set_cell_value(sh, value, row, col) == [sh EXCEPT ![row - 1][col] = value]

\* sheet.set_col_values(data, col, row_start=2)
set_col_values(sh, data, col) ==
  [k \in 1..Len(sh) |-> IF k <= Len(data) THEN [sh[k] EXCEPT ![col] = data[k]]
                                           ELSE sh[k]]

\* sheet.get_last_row()
get_last_row(sh) == Len(sh) + 1

\* list.index(v): position (from 1) of the first v; 0 stands for ValueError
index(list, v) ==
  IF \E k \in 1..Len(list) : list[k] = v
  THEN CHOOSE k \in 1..Len(list) : list[k] = v /\ \A j \in 1..(k - 1) : list[j] # v
  ELSE 0

(***************************************************************************)
(* get_parameters: self.parameters as the insertion order of the submodels *)
(* and, for every (submodel, arg), one list per column.                    *)
(***************************************************************************)
\* np.arange(0, self.get_last_row()-1) written into the '#' column
Renumber(sh) == set_col_values(sh, [k \in 1..(get_last_row(sh) - 1) |-> k - 1], "num")

\* ScanRows in which a repeated (submodel, arg) overwrites the entry
RECURSIVE ScanRows_Overwrite(_, _, _)
ScanRows_Overwrite(sh, k, P) ==
  IF k > Len(sh) THEN P
  ELSE LET row_values == sh[k]
           submodel == row_values.submodel
           key == <<submodel, row_values.arg>>
       IN IF submodel = "" THEN ScanRows_Overwrite(sh, k + 1, P)
          ELSE ScanRows_Overwrite(sh, k + 1,
                 [order |-> IF \E j \in 1..Len(P.order) : P.order[j] = submodel
                            THEN P.order ELSE Append(P.order, submodel),
                  tab |-> (key :> [c \in Cols |-> <<row_values[c]>>]) @@ P.tab])

RECURSIVE ScanRows(_, _, _)
ScanRows(sh, k, P) ==
  IF k > Len(sh) THEN P
  ELSE LET row_values == sh[k]
           submodel == row_values.submodel
           arg == row_values.arg
           key == <<submodel, arg>>
       IN IF submodel = "" THEN ScanRows(sh, k + 1, P)
          ELSE IF key \in DOMAIN P.tab
          THEN ScanRows(sh, k + 1,
                 [P EXCEPT !.tab[key] = [c \in Cols |-> Append(@[c], row_values[c])]])
          ELSE ScanRows(sh, k + 1,
                 [order |-> IF \E j \in 1..Len(P.order) : P.order[j] = submodel
                            THEN P.order ELSE Append(P.order, submodel),
                  tab |-> (key :> [c \in Cols |-> <<row_values[c]>>]) @@ P.tab])

NoParameters == [order |-> <<>>, tab |-> <<>>]

get_parameters(sh) ==
  LET numbered == Renumber(sh)
  IN [sheet |-> numbered, parameters |-> ScanRows(numbered, 1, NoParameters)]

\* 'y' in [use for sublist in [...] for use in sublist]
Active(P, submodel) ==
  \E key \in DOMAIN P.tab :
     key[1] = submodel /\ \E k \in 1..Len(P.tab[key].use) : P.tab[key].use[k] = "y"

\* arg in self.parameters[submodel]
HasArg(P, submodel, arg) == <<submodel, arg>> \in DOMAIN P.tab

\* submodel in self.parameters
HasSubmodel(P, submodel) == \E j \in 1..Len(P.order) : P.order[j] = submodel

(***************************************************************************)
(* Exceptions.  type "none" is a normal return.  The type "no return" is   *)
(* not an exception: it marks a call whose link resolution never ends.     *)
(***************************************************************************)
NoExc == [type |-> "none", submodel |-> "", arg |-> "", ids |-> <<>>]

Raise(type, submodel, arg) ==
  [type |-> type, submodel |-> submodel, arg |-> arg, ids |-> <<>>]

(***************************************************************************)
(* Link resolution of update_model.                                        *)
(***************************************************************************)
\* The membership test of the link lookup: the argument is looked up in the
\* LINKING submodel's entry, self.parameters[submodel].
LinkTargetKnown(P, submodel, submodel2link, arg2link) ==
  HasSubmodel(P, submodel2link) /\ HasArg(P, submodel, arg2link)

\* One lookup of a link target: the body of the if before the loop and the
\* body of the while loop, which are the same statements.
Lookup(P, submodel, vary) ==
  LET submodel2link == vary[1]
      arg2link == vary[Len(vary)]
      key == <<submodel2link, arg2link>>
      none == [status |-> "raise", exc |-> NoExc, submodel2link |-> submodel2link,
               arg2link |-> arg2link, to_use_linked |-> 0, vary2 |-> <<>>]
  IN IF ~LinkTargetKnown(P, submodel, submodel2link, arg2link)
     THEN [none EXCEPT !.exc = Raise("ValueError: Cannot find submodel",
                                     submodel2link, arg2link)]
     ELSE IF key \notin DOMAIN P.tab
     THEN [none EXCEPT !.exc = Raise("KeyError", submodel2link, arg2link)]
     ELSE LET to_use_linked == index(P.tab[key].use, "y")
          IN IF to_use_linked = 0
             THEN [none EXCEPT !.exc = Raise("ValueError: 'y' is not in list",
                                             submodel2link, arg2link)]
             ELSE [none EXCEPT !.status = "found",
                               !.to_use_linked = to_use_linked,
                               !.vary2 = P.tab[key].vary[to_use_linked]]

\* The while loop.  The walk is a function of the current target alone, so
\* more lookups than there are entries means a target was visited twice and
\* the loop never ends: status "loop".
RECURSIVE FollowLinks(_, _, _, _)
FollowLinks(P, submodel, vary, fuel) ==
  LET r == Lookup(P, submodel, vary)
  IN IF r.status = "raise" THEN r
     ELSE IF r.vary2 = <<"y">> \/ r.vary2 = <<"n">> THEN r
     ELSE IF fuel = 0 THEN [r EXCEPT !.status = "loop"]
     ELSE FollowLinks(P, submodel, r.vary2, fuel - 1)

Resolve(P, submodel, vary) ==
  FollowLinks(P, submodel, vary, Cardinality(DOMAIN P.tab))

(***************************************************************************)
(* update_model: the three branches of the loop over the arguments.  acc   *)
(* carries the sheet, the attributes of self and the locals.               *)
(***************************************************************************)
\* AddItem that puts the item in front of the argument list
AddItem_InFront(model_string, item) ==
  [model_string EXCEPT ![Len(model_string)].args = <<item>> \o @]

\* model_string += f'{item}, '  (appended to the term of the current submodel)
AddItem(model_string, item) ==
  [model_string EXCEPT ![Len(model_string)].args = Append(@, item)]

pid(p) == "p" \o ToString(p)
xid(x) == "x" \o ToString(x)

\* vary2 == 'n': the target's guess as a literal
LinkedFixed(acc, hashtag, v) ==
  [acc EXCEPT
     !.model_string = AddItem(@, v),
     !.sheet = set_cell_value(set_cell_value(set_cell_value(set_cell_value(@,
                 "-", hashtag + 2, "id"), v, hashtag + 2, "guess"),
                 v, hashtag + 2, "fitted"), "0", hashtag + 2, "error")]

\* vary2 == 'y': the shared id of the target
LinkedFree(acc, key, to_use, hashtag, target) ==
  IF target \in DOMAIN acc.linked_parameters
  THEN LET x_temp == acc.linked_parameters[target]
       IN [acc EXCEPT
             !.sheet = set_cell_value(@, xid(x_temp), hashtag + 2, "id"),
             !.parameters.tab[key].id[to_use] = xid(x_temp),
             !.model_string = AddItem(@, xid(x_temp))]
  ELSE [acc EXCEPT
          !.linked_parameters = (target :> acc.x) @@ @,
          !.sheet = set_cell_value(@, xid(acc.x), hashtag + 2, "id"),
          !.parameters.tab[key].id[to_use] = xid(acc.x),
          !.model_string = AddItem(@, xid(acc.x)),
          !.x = @ + 1]

\* linked parameter
LinkedStep(acc, submodel, key, to_use, hashtag, vary) ==
  LET P == acc.parameters
      r == Resolve(P, submodel, vary)
      target == <<r.submodel2link, r.arg2link>>
  IN CASE r.status = "raise" -> [acc EXCEPT !.exc = r.exc]
       [] r.status = "loop" ->
            [acc EXCEPT !.exc = Raise("no return", submodel, key[2]),
                        !.vary2 = r.vary2]
       [] r.vary2 = <<"n">> ->
            LinkedFixed(acc, hashtag, P.tab[target].guess[r.to_use_linked])
       [] OTHER -> LinkedFree(acc, key, to_use, hashtag, target)

\* FixedStep without the write of 0 into the error cell
FixedStep_NoErrorCell(acc, key, to_use, hashtag) ==
  LET v == acc.parameters.tab[key].guess[to_use]
  IN [acc EXCEPT
        !.model_string = AddItem(@, v),
        !.sheet = set_cell_value(set_cell_value(@,
                    "-", hashtag + 2, "id"), v, hashtag + 2, "fitted"),
        !.parameters.tab[key].id[to_use] = "-",
        !.parameters.tab[key].fitted[to_use] = v,
        !.parameters.tab[key].error[to_use] = "0"]

\* fixed parameter
FixedStep(acc, key, to_use, hashtag) ==
  LET v == acc.parameters.tab[key].guess[to_use]
  IN [acc EXCEPT
        !.model_string = AddItem(@, v),
        !.sheet = set_cell_value(set_cell_value(set_cell_value(@,
                    "-", hashtag + 2, "id"), v, hashtag + 2, "fitted"),
                    "0", hashtag + 2, "error"),
        !.parameters.tab[key].id[to_use] = "-",
        !.parameters.tab[key].fitted[to_use] = v,
        !.parameters.tab[key].error[to_use] = "0"]

\* FreeStep that leaves p_error as it is
FreeStep_NoErrorEntry(acc, key, to_use, hashtag) ==
  LET e == acc.parameters.tab[key]
      a1 == [acc EXCEPT !.p_min = Append(@, e.min[to_use]),
                        !.p_max = Append(@, e.max[to_use]),
                        !.p_guess = Append(@, e.guess[to_use]),
                        !.p_fitted = Append(@, e.fitted[to_use])]
  IN IF key \in DOMAIN acc.linked_parameters
     THEN LET x_temp == acc.linked_parameters[key]
          IN [a1 EXCEPT
                !.sheet = set_cell_value(@, xid(x_temp), hashtag + 2, "id"),
                !.parameters.tab[key].id[to_use] = xid(x_temp),
                !.var_string = Append(@, xid(x_temp)),
                !.model_string = AddItem(@, xid(x_temp))]
     ELSE [a1 EXCEPT
             !.sheet = set_cell_value(@, pid(acc.p), hashtag + 2, "id"),
             !.parameters.tab[key].id[to_use] = pid(acc.p),
             !.var_string = Append(@, pid(acc.p)),
             !.model_string = AddItem(@, pid(acc.p)),
             !.p = @ + 1]

\* variable parameter
FreeStep(acc, key, to_use, hashtag) ==
  LET e == acc.parameters.tab[key]
      a1 == [acc EXCEPT !.p_min = Append(@, e.min[to_use]),
                        !.p_max = Append(@, e.max[to_use]),
                        !.p_guess = Append(@, e.guess[to_use]),
                        !.p_fitted = Append(@, e.fitted[to_use]),
                        !.p_error = Append(@, e.error[to_use])]
  IN IF key \in DOMAIN acc.linked_parameters
     THEN LET x_temp == acc.linked_parameters[key]
          IN [a1 EXCEPT
                !.sheet = set_cell_value(@, xid(x_temp), hashtag + 2, "id"),
                !.parameters.tab[key].id[to_use] = xid(x_temp),
                !.var_string = Append(@, xid(x_temp)),
                !.model_string = AddItem(@, xid(x_temp))]
     ELSE [a1 EXCEPT
             !.sheet = set_cell_value(@, pid(acc.p), hashtag + 2, "id"),
             !.parameters.tab[key].id[to_use] = pid(acc.p),
             !.var_string = Append(@, pid(acc.p)),
             !.model_string = AddItem(@, pid(acc.p)),
             !.p = @ + 1]

\* SelectUseCase that takes the last use-case with use = 'y'
SelectUseCase_LastUse(P, submodel, arg) ==
  IF ~HasArg(P, submodel, arg)
  THEN [to_use |-> 0, exc |-> Raise("KeyError", submodel, arg)]
  ELSE LET use == P.tab[<<submodel, arg>>].use
           Y == { i \in 1..Len(use) : use[i] = "y" }
       IN IF Y = {}
          THEN [to_use |-> 0, exc |-> Raise("MissingArgument", submodel, arg)]
          ELSE [to_use |-> CHOOSE i \in Y : \A j \in Y : j <= i, exc |-> NoExc]

\* The lookup of the selected use-case: self.parameters[submodel][arg]['use']
\* .index('y'), where only ValueError is caught and turned into
\* MissingArgument.
SelectUseCase(P, submodel, arg) ==
  IF ~HasArg(P, submodel, arg)
  THEN [to_use |-> 0, exc |-> Raise("KeyError", submodel, arg)]
  ELSE LET to_use == index(P.tab[<<submodel, arg>>].use, "y")
       IN IF to_use = 0
          THEN [to_use |-> 0, exc |-> Raise("MissingArgument", submodel, arg)]
          ELSE [to_use |-> to_use, exc |-> NoExc]

\* The body of  for arg in args_expected[1: ]
ArgStep(acc, submodel, arg) ==
  LET sel == SelectUseCase(acc.parameters, submodel, arg)
      key == <<submodel, arg>>
  IN IF sel.exc.type # "none" THEN [acc EXCEPT !.exc = sel.exc]
     ELSE LET to_use == sel.to_use
              vary == acc.parameters.tab[key].vary[to_use]
              hashtag == acc.parameters.tab[key].num[to_use]
          IN IF vary # <<"y">> /\ vary # <<"n">>
             THEN LinkedStep(acc, submodel, key, to_use, hashtag, vary)
             ELSE IF vary = <<"n">>
             THEN FixedStep(acc, key, to_use, hashtag)
             ELSE FreeStep(acc, key, to_use, hashtag)

RECURSIVE ForArgs(_, _, _)
ForArgs(acc, submodel, args) ==
  IF args = <<>> \/ acc.exc.type # "none" THEN acc
  ELSE ForArgs(ArgStep(acc, submodel, Head(args)), submodel, Tail(args))

\* The body of  for submodel in self.parameters
RECURSIVE ForSubmodels(_, _)
ForSubmodels(acc, k) ==
  IF k > Len(acc.parameters.order) \/ acc.exc.type # "none" THEN acc
  ELSE LET submodel == acc.parameters.order[k]
       IN IF Active(acc.parameters, submodel)
          THEN ForSubmodels(
                 ForArgs([acc EXCEPT !.model_string =
                            Append(@, [name |-> submodel_name(submodel), args |-> <<>>])],
                         submodel, Tail(args_expected(submodel_name(submodel)))),
                 k + 1)
          ELSE ForSubmodels(acc, k + 1)

(***************************************************************************)
(* update_model after the traversal: id_list, the model, the checks.       *)
(***************************************************************************)
\* [s.strip() for s in eval('["' + var_string[:-2].replace(',', '","') + '"]')]
\* An empty var_string gives [''], not [].
IdList(var_string) == IF var_string = <<>> THEN <<"">> ELSE var_string

\* Whether  f'lambda x, {var_string[:-2]}: {model_string[:-3]}'  and
\* f'lambda x:' + string  are expressions eval accepts: there is a term and
\* no item is empty text.
Evaluable(terms) ==
  /\ terms # <<>>
  /\ \A t \in 1..Len(terms) : \A i \in 1..Len(terms[t].args) : terms[t].args[i] # ""

\* [self.id_list[i] for i, x in enumerate(self.p_guess) if x == '']
RECURSIVE GuessMissing(_, _, _)
GuessMissing(id_list, p_guess, i) ==
  IF i > Len(p_guess) THEN <<>>
  ELSE IF p_guess[i] = "" THEN <<id_list[i]>> \o GuessMissing(id_list, p_guess, i + 1)
  ELSE GuessMissing(id_list, p_guess, i + 1)

\* [d if x == '' else x for x in list]
Default(list, d) == [i \in 1..Len(list) |-> IF list[i] = "" THEN d ELSE list[i]]

\* self.linked_parameters = {}
ResetLinked(linked_parameters) == <<>>

(***************************************************************************)
(* update_submodels: per active submodel the items of guess_string and of  *)
(* fit_string.                                                             *)
(***************************************************************************)
SubmodelArgStep(S, sub, submodel, arg) ==
  LET sel == SelectUseCase(S.parameters, submodel, arg)
      e == S.parameters.tab[<<submodel, arg>>]
  IN IF sel.exc.type # "none" THEN [sub EXCEPT !.exc = sel.exc]
     ELSE IF e.id[sel.to_use] # "-"
     THEN LET id == e.id[sel.to_use]
              i == index(S.id_list, id)
          IN IF i = 0
             THEN [sub EXCEPT !.exc = Raise("ValueError: id is not in list", submodel, arg)]
             ELSE IF i > Len(S.p_guess) \/ i > Len(S.p_fitted)
             THEN [sub EXCEPT !.exc = Raise("IndexError", submodel, arg)]
             ELSE [sub EXCEPT !.guess_string = Append(@, S.p_guess[i]),
                              !.fit_string = Append(@, S.p_fitted[i])]
     ELSE [sub EXCEPT !.guess_string = Append(@, e.guess[sel.to_use]),
                      !.fit_string = Append(@, e.fitted[sel.to_use])]

RECURSIVE SubmodelArgs(_, _, _, _)
SubmodelArgs(S, sub, submodel, args) ==
  IF args = <<>> \/ sub.exc.type # "none" THEN sub
  ELSE SubmodelArgs(S, SubmodelArgStep(S, sub, submodel, Head(args)), submodel, Tail(args))

\* One entry of self.submodel; the two lambdas are evaluated at its end.
SubmodelEntry(S, submodel) ==
  LET sub == SubmodelArgs(S,
               [submodel |-> submodel, guess_string |-> <<>>, fit_string |-> <<>>,
                exc |-> NoExc],
               submodel, Tail(args_expected(submodel_name(submodel))))
  IN IF sub.exc.type = "none"
        /\ \E i \in 1..Len(sub.guess_string) :
              sub.guess_string[i] = "" \/ sub.fit_string[i] = ""
     THEN [sub EXCEPT !.exc = Raise("SyntaxError", submodel, "")]
     ELSE sub

RECURSIVE SubmodelLoop(_, _, _)
SubmodelLoop(S, k, out) ==
  IF k > Len(S.parameters.order) \/ out.exc.type # "none" THEN out
  ELSE LET submodel == S.parameters.order[k]
       IN IF Active(S.parameters, submodel)
          THEN LET sub == SubmodelEntry(S, submodel)
               IN SubmodelLoop(S, k + 1,
                    [submodel |-> Append(out.submodel,
                        [submodel |-> submodel, guess_string |-> sub.guess_string,
                         fit_string |-> sub.fit_string]),
                     exc |-> sub.exc])
          ELSE SubmodelLoop(S, k + 1, out)

update_submodels(S) == SubmodelLoop(S, 1, [submodel |-> <<>>, exc |-> NoExc])

(***************************************************************************)
(* update_model as a whole: the sheet and self it leaves, and how it ends. *)
(***************************************************************************)
Returned(sh, S, exc_, vary2_) ==
  [sheet |-> sh, self |-> S, exc |-> exc_, vary2 |-> vary2_]

\* The locals and attributes at the start of the traversal: the lists are
\* emptied, the id column is cleared after get_parameters has read it.
Start(gp, S) ==
  [sheet |-> set_col_values(gp.sheet,
               [k \in 1..(get_last_row(gp.sheet) - 1) |-> ""], "id"),
   parameters |-> gp.parameters,
   p_min |-> <<>>, p_max |-> <<>>, p_guess |-> <<>>, p_fitted |-> <<>>,
   p_error |-> <<>>,
   linked_parameters |-> ResetLinked(S.linked_parameters),
   var_string |-> <<>>, model_string |-> <<>>, p |-> 0, x |-> 0,
   exc |-> NoExc, vary2 |-> <<>>]

\* self as the traversal leaves it
Traversed(S, acc) ==
  [S EXCEPT !.parameters = acc.parameters,
            !.p_min = acc.p_min, !.p_max = acc.p_max, !.p_guess = acc.p_guess,
            !.p_fitted = acc.p_fitted, !.p_error = acc.p_error,
            !.linked_parameters = acc.linked_parameters]

\* self.id_list and self.model_string
Finished(S, acc) ==
  [S EXCEPT !.id_list = IdList(acc.var_string),
            !.model_string = [vars |-> acc.var_string, terms |-> acc.model_string]]

\* the replacement of the empty min, max, fitted and error
Defaulted(S) ==
  [S EXCEPT !.p_min = Default(@, "-inf"), !.p_max = Default(@, "inf"),
            !.p_fitted = Default(@, "0"), !.p_error = Default(@, "0")]

WithSubmodels(sh, S, us) == Returned(sh, [S EXCEPT !.submodel = us.submodel], us.exc, <<>>)

\* self.model = eval(self.model_string), the guess check, update_submodels
Validate(sh, S) ==
  IF ~Evaluable(S.model_string.terms)
  THEN Returned(sh, S, Raise("SyntaxError", "", ""), <<>>)
  ELSE IF \E i \in 1..Len(S.p_guess) : S.p_guess[i] = ""
  THEN Returned(sh, S, [Raise("ValueError: no guess value", "", "")
                          EXCEPT !.ids = GuessMissing(S.id_list, S.p_guess, 1)], <<>>)
  ELSE WithSubmodels(sh, Defaulted(S), update_submodels(Defaulted(S)))

Assemble(S, acc) ==
  IF acc.exc.type # "none"
  THEN Returned(acc.sheet, Traversed(S, acc), acc.exc, acc.vary2)
  ELSE Validate(acc.sheet, Finished(Traversed(S, acc), acc))

update_model(sh, S) == Assemble(S, ForSubmodels(Start(get_parameters(sh), S), 1))

(***************************************************************************)
(* fit: the solver and the write-back.                                     *)
(***************************************************************************)
\* What curve_fit may return for one parameter: a fitted value and the
\* diagonal entry of the covariance matrix.
SolverPoints == { [fitted |-> "7", cov |-> 4], [fitted |-> "8", cov |-> 9] }

\* np.sqrt of a diagonal entry
sqrt(c) == ToString(CHOOSE r \in 0..c : r * r = c)

\* WriteBackArg that writes back independent parameters only, not shared ones
WriteBackArg_IndependentOnly(w, submodel, arg) ==
  LET S == w.self
      sel == SelectUseCase(S.parameters, submodel, arg)
      key == <<submodel, arg>>
      to_use == sel.to_use
      hashtag == S.parameters.tab[key].num[to_use]
      id == S.parameters.tab[key].id[to_use]
      i == index(S.id_list, id)
  IN IF sel.exc.type # "none" THEN [w EXCEPT !.exc = sel.exc]
     ELSE IF id # "-" /\ id \in {pid(0), pid(1), pid(2), pid(3)}
     THEN [w EXCEPT
             !.sheet = set_cell_value(set_cell_value(@, S.p_fitted[i], hashtag + 2, "fitted"),
                                      S.p_error[i], hashtag + 2, "error"),
             !.self.parameters.tab[key].fitted[to_use] = S.p_fitted[i],
             !.self.parameters.tab[key].error[to_use] = S.p_error[i]]
     ELSE w

\* The body of the write-back loop over the arguments
WriteBackArg(w, submodel, arg) ==
  LET S == w.self
      sel == SelectUseCase(S.parameters, submodel, arg)
      key == <<submodel, arg>>
      to_use == sel.to_use
      hashtag == S.parameters.tab[key].num[to_use]
      id == S.parameters.tab[key].id[to_use]
      i == index(S.id_list, id)
  IN IF sel.exc.type # "none" THEN [w EXCEPT !.exc = sel.exc]
     ELSE IF id # "-"
     THEN IF i = 0
          THEN [w EXCEPT !.exc = Raise("ValueError: id is not in list", submodel, arg)]
          ELSE IF i > Len(S.p_fitted) \/ i > Len(S.p_error)
          THEN [w EXCEPT !.exc = Raise("IndexError", submodel, arg)]
          ELSE LET v1 == S.p_fitted[i]
                   v2 == S.p_error[i]
               IN [w EXCEPT
                     !.sheet = set_cell_value(set_cell_value(@, v1, hashtag + 2, "fitted"),
                                              v2, hashtag + 2, "error"),
                     !.self.parameters.tab[key].fitted[to_use] = v1,
                     !.self.parameters.tab[key].error[to_use] = v2]
     ELSE w

RECURSIVE WriteBackArgs(_, _, _)
WriteBackArgs(w, submodel, args) ==
  IF args = <<>> \/ w.exc.type # "none" THEN w
  ELSE WriteBackArgs(WriteBackArg(w, submodel, Head(args)), submodel, Tail(args))

RECURSIVE WriteBack(_, _)
WriteBack(w, k) ==
  IF k > Len(w.self.parameters.order) \/ w.exc.type # "none" THEN w
  ELSE LET submodel == w.self.parameters.order[k]
       IN IF Active(w.self.parameters, submodel)
          THEN WriteBack(WriteBackArgs(w, submodel,
                           Tail(args_expected(submodel_name(submodel)))), k + 1)
          ELSE WriteBack(w, k + 1)

\* self.p_fitted, self.p_cov = curve_fit(...); self.p_error = np.sqrt(np.diag(self.p_cov))
\* (p_cov is kept as its diagonal)
Solved(S, sol) ==
  [S EXCEPT !.p_fitted = [i \in 1..Len(sol) |-> sol[i].fitted],
            !.p_cov = [i \in 1..Len(sol) |-> sol[i].cov],
            !.p_error = [i \in 1..Len(sol) |-> sqrt(sol[i].cov)]]

\* Saved that saves whatever the save argument is
Saved_Always(w, us, save) ==
  [sheet |-> w.sheet, self |-> [w.self EXCEPT !.submodel = us.submodel],
   exc |-> us.exc, saves |-> IF us.exc.type = "none" THEN 1 ELSE 0]

\* self.update_submodels() and, if save, self.object_parent.save()
Saved(w, us, save) ==
  [sheet |-> w.sheet, self |-> [w.self EXCEPT !.submodel = us.submodel],
   exc |-> us.exc, saves |-> IF us.exc.type = "none" /\ save THEN 1 ELSE 0]

WrittenBack(w, save) ==
  IF w.exc.type # "none"
  THEN [sheet |-> w.sheet, self |-> w.self, exc |-> w.exc, saves |-> 0]
  ELSE Saved(w, update_submodels(w.self), save)

\* fit after update_model returned um and curve_fit returned sol
fit(um, sol, save) ==
  WrittenBack(WriteBack([sheet |-> um.sheet, self |-> Solved(um.self, sol),
                         exc |-> NoExc], 1), save)

(***************************************************************************)
(* arraymanip.increasing_monotonicity.  The two lists are integer lists,   *)
(* so data2sort is an integer array; a row is [x |-> , y |-> ].            *)
(***************************************************************************)
MaxLen == 3

XValues == 1..2
YValues == -1..2

\* the example of the docstring
Example == [dataX |-> <<1, 2, 4, 2, 1>>, dataY |-> <<5, 6, 9, 8, 9>>]

ArrayInputs ==
  { [dataX |-> dx, dataY |-> dy] :
      dx \in UNION { [1..n -> XValues] : n \in 1..MaxLen },
      dy \in UNION { [1..n -> YValues] : n \in 1..MaxLen } }

\* np.array(np.transpose([dataX, dataY]))
data2sort(dataX, dataY) == [k \in 1..Len(dataX) |-> [x |-> dataX[k], y |-> dataY[k]]]

\* data2sort[data2sort[:, 0].argsort()]: the rows in increasing x.  The order
\* argsort gives to rows of equal x does not reach the result, which takes
\* their y only through a sum.
RECURSIVE Insert(_, _)
Insert(sorted, row) ==
  IF sorted = <<>> THEN <<row>>
  ELSE IF sorted[Len(sorted)].x <= row.x THEN Append(sorted, row)
  ELSE Append(Insert(SubSeq(sorted, 1, Len(sorted) - 1), row), sorted[Len(sorted)])

RECURSIVE data_sorted(_)
data_sorted(rows) ==
  IF rows = <<>> THEN <<>>
  ELSE Insert(data_sorted(SubSeq(rows, 1, Len(rows) - 1)), rows[Len(rows)])

\* the inner while: how many rows after row i have its x
RECURSIVE number_of_duplicates(_, _, _)
number_of_duplicates(d, i, k) ==
  IF k < Len(d) /\ d[k + 1].x = d[i].x THEN 1 + number_of_duplicates(d, i, k + 1) ELSE 0

RECURSIVE Sum(_, _, _)
Sum(d, from, to) == IF from > to THEN 0 ELSE d[from].y + Sum(d, from + 1, to)

\* a float stored into an element of an integer array loses its fraction
IntCast(num, den) == IF num >= 0 THEN num \div den ELSE -((-num) \div den)

\* data_sorted_clean[i, 1] = np.mean(data_sorted_clean[i:(i+n+1), 1])
Mean(d, i, n) == [d EXCEPT ![i].y = IntCast(Sum(d, i, i + n), n + 1)]

\* for j in range(n): data_sorted_clean = np.delete(data_sorted_clean, i+1, axis=0)
Delete(d, i, n) == SubSeq(d, 1, i) \o SubSeq(d, i + n + 1, Len(d))

\* the outer while, from row i on
RECURSIVE Clean(_, _)
Clean(d, i) ==
  IF i = Len(d) THEN d
  ELSE LET n == number_of_duplicates(d, i, i)
           done == n >= 1 /\ i + n = Len(d)
           cleaned == IF n >= 1 THEN Delete(Mean(d, i, n), i, n) ELSE d
       IN IF done THEN cleaned ELSE Clean(cleaned, i + 1)

increasing_monotonicity(dataX, dataY) ==
  LET clean == Clean(data_sorted(data2sort(dataX, dataY)), 1)
  IN [x |-> [k \in 1..Len(clean) |-> clean[k].x],
      y |-> [k \in 1..Len(clean) |-> clean[k].y]]

(***************************************************************************)
(* The state machine.                                                      *)
(***************************************************************************)
VARIABLES
  sheet,         \* the data rows of the Tabular Store
  self,          \* the attributes the module adds to the sheet object
  call,          \* the last call made: "none", "update_model", "fit"
  exc,           \* how the last call ended
  pc,            \* "idle", or "resolving" inside a link loop that never ends
  vary2,         \* the local vary2 of the link loop while pc = "resolving"
  pre,           \* the sheet, id_list and parameters as they were when the last call began
  solver_calls,  \* calls of curve_fit made by the last call
  saves,         \* calls of object_parent.save() made by the last call
  save,          \* the save argument of the last call of fit (its default otherwise)
  arrays         \* the lists given to increasing_monotonicity and what it returned

vars == <<sheet, self, call, exc, pc, vary2, pre, solver_calls, saves, save, arrays>>

NoArrays == [dataX |-> <<>>, dataY |-> <<>>, x |-> <<>>, y |-> <<>>, returned |-> FALSE]

NoSelf ==
  [parameters |-> NoParameters, p_min |-> <<>>, p_max |-> <<>>, p_guess |-> <<>>,
   p_fitted |-> <<>>, p_error |-> <<>>, p_cov |-> <<>>,
   linked_parameters |-> <<>>,
   id_list |-> <<>>, model_string |-> [vars |-> <<>>, terms |-> <<>>],
   submodel |-> <<>>]

Init ==
  /\ sheet \in Sheets
  /\ self = NoSelf
  /\ call = "none"
  /\ exc = NoExc
  /\ pc = "idle"
  /\ vary2 = <<>>
  /\ pre = [sheet |-> sheet, id_list |-> <<>>, parameters |-> NoParameters,
           built |-> FALSE]
  /\ solver_calls = 0
  /\ saves = 0
  /\ save = TRUE
  /\ arrays = NoArrays

\* What a call finds when it begins.
Before(sh, S, last) ==
  [sheet |-> sh, id_list |-> S.id_list, parameters |-> S.parameters,
   built |-> last \in {"update_model", "fit"}]

\* The state a call of update_model leaves, whoever makes the call.
AfterUpdateModel(um, name) ==
  /\ sheet' = um.sheet
  /\ self' = um.self
  /\ call' = name
  /\ exc' = um.exc
  /\ pc' = IF um.exc.type = "no return" THEN "resolving" ELSE "idle"
  /\ vary2' = um.vary2
  /\ pre' = Before(sheet, self, call)
  /\ saves' = 0

UpdateModel ==
  /\ pc = "idle"
  /\ \E um \in {update_model(sheet, self)} : AfterUpdateModel(um, "update_model")
  /\ solver_calls' = 0
  /\ save' = TRUE
  /\ UNCHANGED arrays

\* fit whose update_model raises (or never returns)
FitAborted ==
  /\ pc = "idle"
  /\ \E um \in {update_model(sheet, self)} :
        /\ um.exc.type # "none"
        /\ AfterUpdateModel(um, "fit")
        /\ solver_calls' = 0
        /\ save' \in BOOLEAN
        /\ UNCHANGED arrays

\* fit whose curve_fit raises
FitSolverFails ==
  /\ pc = "idle"
  /\ \E um \in {update_model(sheet, self)} :
        /\ um.exc.type = "none"
        /\ AfterUpdateModel([um EXCEPT !.exc = Raise("SolverFailure", "", "")], "fit")
        /\ solver_calls' = 1
        /\ save' \in BOOLEAN
        /\ UNCHANGED arrays

\* fit whose curve_fit returns
Fit ==
  /\ pc = "idle"
  /\ \E um \in {update_model(sheet, self)} :
        /\ um.exc.type = "none"
        /\ \E sol \in [1..Len(um.self.p_guess) -> SolverPoints], save_ \in BOOLEAN :
             \E r \in {fit(um, sol, save_)} :
                /\ save' = save_
                /\ sheet' = r.sheet
                /\ self' = r.self
                /\ exc' = r.exc
                /\ saves' = r.saves
        /\ call' = "fit"
        /\ solver_calls' = 1
        /\ pc' = "idle"
        /\ vary2' = <<>>
        /\ pre' = Before(sheet, self, call)
        /\ UNCHANGED arrays

\* get_parameters called on its own
GetParameters ==
  /\ pc = "idle"
  /\ \E gp \in {get_parameters(sheet)} :
        /\ sheet' = gp.sheet
        /\ self' = [self EXCEPT !.parameters = gp.parameters]
  /\ call' = "get_parameters"
  /\ exc' = NoExc
  /\ pre' = Before(sheet, self, call)
  /\ solver_calls' = 0
  /\ saves' = 0
  /\ save' = TRUE
  /\ UNCHANGED <<pc, vary2, arrays>>

\* One more turn of  while vary2 != 'y' and vary2 != 'n'
LinkLoop ==
  /\ pc = "resolving"
  /\ vary2' = Lookup(self.parameters, exc.submodel, vary2).vary2
  /\ UNCHANGED <<sheet, self, call, exc, pc, pre, solver_calls, saves, save, arrays>>

Next == UpdateModel \/ FitAborted \/ FitSolverFails \/ Fit \/ LinkLoop

Spec == Init /\ [][Next]_vars

\* The table builder called on its own, on sheets as the user entered them
\* and as builds left them.
NextTable == GetParameters \/ UpdateModel

SpecTable == Init /\ [][NextTable]_vars

\* increasing_monotonicity called on its own, with no sheet open
InitArrays ==
  /\ sheet = <<>>
  /\ self = NoSelf
  /\ call = "none"
  /\ exc = NoExc
  /\ pc = "idle"
  /\ vary2 = <<>>
  /\ pre = [sheet |-> <<>>, id_list |-> <<>>, parameters |-> NoParameters,
            built |-> FALSE]
  /\ solver_calls = 0
  /\ saves = 0
  /\ save = TRUE
  /\ \E in \in { i \in ArrayInputs \cup {Example} : Len(i.dataX) = Len(i.dataY) } :
        arrays = [dataX |-> in.dataX, dataY |-> in.dataY, x |-> <<>>, y |-> <<>>,
                  returned |-> FALSE]

IncreasingMonotonicity ==
  /\ ~arrays.returned
  /\ arrays.dataX # <<>>
  /\ \E r \in {increasing_monotonicity(arrays.dataX, arrays.dataY)} :
        arrays' = [arrays EXCEPT !.x = r.x, !.y = r.y, !.returned = TRUE]
  /\ call' = "increasing_monotonicity"
  /\ UNCHANGED <<sheet, self, exc, pc, vary2, pre, solver_calls, saves, save>>

NextArrays == IncreasingMonotonicity

SpecArrays == InitArrays /\ [][NextArrays]_vars

(***************************************************************************)
(* Reading the sheet as a user does, for the statements below.             *)
(***************************************************************************)
SubmodelsOf(sh) == { sh[k].submodel : k \in 1..Len(sh) } \ {""}

IsActive(sh, submodel) ==
  \E k \in 1..Len(sh) : sh[k].submodel = submodel /\ sh[k].use = "y"

ActiveSubmodels(sh) == { s \in SubmodelsOf(sh) : IsActive(sh, s) }

FirstRow(sh, submodel) ==
  CHOOSE k \in 1..Len(sh) :
    sh[k].submodel = submodel /\ \A j \in 1..(k - 1) : sh[j].submodel # submodel

\* the place of an active submodel among the active ones, in sheet order
Rank(sh, submodel) ==
  1 + Cardinality({ t \in ActiveSubmodels(sh) : FirstRow(sh, t) < FirstRow(sh, submodel) })

\* the arguments the registry declares, the independent variable dropped
Declared(submodel) == Tail(args_expected(submodel_name(submodel)))

\* the place of a declared argument in the argument list of its term
Place(submodel, arg) ==
  CHOOSE j \in 1..Len(Declared(submodel)) : Declared(submodel)[j] = arg

\* the row of the selected use-case of (submodel, arg): the first with use = 'y'
Selected(sh, submodel, arg) ==
  LET R == { k \in 1..Len(sh) :
               sh[k].submodel = submodel /\ sh[k].arg = arg /\ sh[k].use = "y" }
  IN IF R = {} THEN 0 ELSE CHOOSE k \in R : \A j \in R : k <= j

\* the arguments of the active submodels that the registry declares
ArgNames == {"a", "b"}

ExpectedArgs(sh) ==
  { n \in (ActiveSubmodels(sh) \X ArgNames) :
      \E j \in 1..Len(Declared(n[1])) : Declared(n[1])[j] = n[2] }

\* those of them that have a selected use-case
Nodes(sh) == { n \in ExpectedArgs(sh) : Selected(sh, n[1], n[2]) # 0 }

SelRow(sh, n) == sh[Selected(sh, n[1], n[2])]

IsLink(vary) == vary # <<"y">> /\ vary # <<"n">>

\* the (submodel, argument) a vary cell names
Target(vary) == <<vary[1], vary[Len(vary)]>>

Links(sh) == { n \in Nodes(sh) : IsLink(SelRow(sh, n).vary) }

\* every expected argument has a selected use-case with a guess
Complete(sh) ==
  \A n \in ExpectedArgs(sh) : Selected(sh, n[1], n[2]) # 0 /\ SelRow(sh, n).guess # ""

\* where k links lead from n; <<"", "">> when they lead nowhere
RECURSIVE Hop(_, _, _)
Hop(sh, n, k) ==
  IF k = 0 THEN n
  ELSE IF n \notin Nodes(sh) \/ ~IsLink(SelRow(sh, n).vary) THEN <<"", "">>
  ELSE Hop(sh, Target(SelRow(sh, n).vary), k - 1)

OnCycle(sh, n) ==
  n \in Nodes(sh) /\ \E k \in 1..Cardinality(Nodes(sh)) : Hop(sh, n, k) = n

\* the item at the place of (submodel, arg) in the composite expression
Item(sh, S, n) == S.model_string.terms[Rank(sh, n[1])].args[Place(n[1], n[2])]

\* the use-case of self.parameters that row k of the sheet became
UseCase(sh, k) ==
  Cardinality({ j \in 1..k : sh[j].submodel = sh[k].submodel /\ sh[j].arg = sh[k].arg })

Count(list, v) == Cardinality({ i \in 1..Len(list) : list[i] = v })

Returned_update_model == call = "update_model" /\ pc = "idle"

\* the last call was update_model or fit
Built == call \in {"update_model", "fit"}

(***************************************************************************)
(* C1.  Direct link to a free target.                                      *)
(***************************************************************************)
\* s2's argument a names s1's argument a, which is free; nothing else in the
\* sheet is linked, missing or without a guess.
DirectLink(sh, s1, s2, a) ==
  /\ s1 # s2
  /\ <<s1, a>> \in Nodes(sh) /\ <<s2, a>> \in Nodes(sh)
  /\ SelRow(sh, <<s2, a>>).vary = <<s1, a>>
  /\ SelRow(sh, <<s1, a>>).vary = <<"y">>
  /\ Complete(sh)
  /\ Links(sh) = {<<s2, a>>}

\* C1: when s2's argument a is linked to s1's free argument a, update_model
\* gives both arguments the one id x0, in either order of their rows, puts x0
\* at their places in the composite expression and has one entry for it in
\* the free-parameter vectors.
C1_DirectLinkSharesOneId ==
  \A s1 \in SubmodelsOf(sheet), s2 \in SubmodelsOf(sheet), a \in ArgNames :
    (Returned_update_model /\ DirectLink(sheet, s1, s2, a)) =>
      /\ SelRow(sheet, <<s1, a>>).id = "x0"
      /\ SelRow(sheet, <<s2, a>>).id = "x0"
      /\ exc.type = "none"
      /\ Item(sheet, self, <<s1, a>>) = "x0"
      /\ Item(sheet, self, <<s2, a>>) = "x0"
      /\ Count(self.id_list, "x0") = 1
      /\ Len(self.p_guess) = Len(self.id_list)
      /\ Len(self.p_min) = Len(self.id_list)
      /\ Len(self.p_max) = Len(self.id_list)

(***************************************************************************)
(* C2.  Transitive link chain.                                             *)
(***************************************************************************)
Chain(sh, A, B, C) ==
  /\ A # B /\ B # C /\ A # C
  /\ IsLink(SelRow(sh, A).vary) /\ Target(SelRow(sh, A).vary) = B
  /\ IsLink(SelRow(sh, B).vary) /\ Target(SelRow(sh, B).vary) = C
  /\ SelRow(sh, C).vary = <<"y">>
  /\ Complete(sh)
  /\ Links(sh) = {A, B}

\* C2: for a chain A -> B -> C with C free, after update_model the selected
\* use-cases of A, B and C carry one id, which occurs once in id_list, and
\* after a fit that succeeds their fitted and error cells are equal.
C2_ChainSharesOneId ==
  \A A \in Nodes(sheet), B \in Nodes(sheet), C \in Nodes(sheet) :
    (Built /\ pc = "idle" /\ Chain(sheet, A, B, C)) =>
      /\ SelRow(sheet, A).id = SelRow(sheet, C).id
      /\ SelRow(sheet, B).id = SelRow(sheet, C).id
      /\ Count(self.id_list, SelRow(sheet, C).id) = 1
      /\ (call = "fit" /\ exc.type = "none") =>
           /\ SelRow(sheet, A).fitted = SelRow(sheet, C).fitted
           /\ SelRow(sheet, B).fitted = SelRow(sheet, C).fitted
           /\ SelRow(sheet, A).error = SelRow(sheet, C).error
           /\ SelRow(sheet, B).error = SelRow(sheet, C).error

(***************************************************************************)
(* C3.  Cyclic links.                                                      *)
(***************************************************************************)
\* C3: when the vary cells form a cycle, update_model ends by raising an
\* error; it is never inside link resolution for ever.
C3_CyclicLinksRaise ==
  (Built /\ \E n \in Nodes(sheet) : OnCycle(sheet, n)) =>
    (pc = "idle" /\ exc.type # "none")

(***************************************************************************)
(* C4.  The store after a validation failure.                              *)
(***************************************************************************)
ValidationErrors ==
  { "ValueError: no guess value", "MissingArgument", "ValueError: Cannot find submodel" }

\* C4: when update_model or fit fails with a missing guess, MissingArgument
\* or an unresolved link, every cell of the sheet is as it was before the call.
C4_StoreUnchangedOnFailure ==
  (Built /\ pc = "idle" /\ exc.type \in ValidationErrors) => sheet = pre.sheet

(***************************************************************************)
(* C5.  MissingArgument.                                                   *)
(***************************************************************************)
\* n has no use-case with use = 'y' and is the only thing wrong with the sheet
MissingOnly(sh, n) ==
  /\ n \in ExpectedArgs(sh)
  /\ Selected(sh, n[1], n[2]) = 0
  /\ \A m \in ExpectedArgs(sh) \ {n} :
        /\ Selected(sh, m[1], m[2]) # 0
        /\ SelRow(sh, m).guess # ""
        /\ ~IsLink(SelRow(sh, m).vary)

\* C5: when an argument the registry declares for an active submodel has no
\* row with use = 'y' (rows with another use, or no row), update_model fails
\* with MissingArgument naming the submodel and the argument.
C5_MissingArgumentNamed ==
  \A n \in ExpectedArgs(sheet) :
    (Returned_update_model /\ MissingOnly(sheet, n)) =>
      (exc.type = "MissingArgument" /\ exc.submodel = n[1] /\ exc.arg = n[2])

(***************************************************************************)
(* C6.  Unresolved link.                                                   *)
(***************************************************************************)
\* no row of the sheet has the (submodel, argument) t
Absent(sh, t) == ~\E k \in 1..Len(sh) : sh[k].submodel = t[1] /\ sh[k].arg = t[2]

\* C6: when the vary cell of a selected use-case names a pair that is absent
\* from the parameter mapping, update_model fails with the unresolved-link
\* error naming both, and with no other error.
C6_UnresolvedLinkNamed ==
  \A n \in Links(sheet) :
    (/\ Returned_update_model
     /\ Complete(sheet)
     /\ Links(sheet) = {n}
     /\ Absent(sheet, Target(SelRow(sheet, n).vary))) =>
      /\ exc.type = "ValueError: Cannot find submodel"
      /\ exc.submodel = Target(SelRow(sheet, n).vary)[1]
      /\ exc.arg = Target(SelRow(sheet, n).vary)[2]

(***************************************************************************)
(* C7.  Link resolving to a fixed target.                                  *)
(***************************************************************************)
\* n names a fixed argument; nothing else in the sheet is linked, missing or
\* without a guess.
LinkToFixed(sh, n) ==
  /\ n \in Links(sh)
  /\ Target(SelRow(sh, n).vary) \in Nodes(sh)
  /\ SelRow(sh, Target(SelRow(sh, n).vary)).vary = <<"n">>
  /\ Complete(sh)
  /\ Links(sh) = {n}

\* C7: when an argument is linked to a fixed target, every update_model, the
\* first on a sheet with an empty id column included, writes id '-', the
\* target's guess as fitted and 0 as error into the argument's row, puts the
\* target's guess at its place in the composite expression, holds '-' as its
\* id in self.parameters and returns, update_submodels having taken the
\* argument as not free.
C7_LinkToFixedIsNotFree ==
  \A n \in Links(sheet) :
    (Returned_update_model /\ LinkToFixed(sheet, n)) =>
      LET v == SelRow(sheet, Target(SelRow(sheet, n).vary)).guess
      IN /\ SelRow(sheet, n).id = "-"
         /\ SelRow(sheet, n).fitted = v
         /\ SelRow(sheet, n).error = "0"
         /\ self.parameters.tab[n].id[UseCase(sheet, Selected(sheet, n[1], n[2]))] = "-"
         /\ exc.type = "none"
         /\ Item(sheet, self, n) = v

(***************************************************************************)
(* C8.  Fixed arguments report themselves.                                 *)
(***************************************************************************)
\* C8: after an update_model that returns normally, every argument of an
\* active submodel whose selected use-case has vary = 'n' has, in its row of
\* the sheet and in self.parameters, fitted equal to guess, error 0, id '-'.
C8_FixedReportThemselves ==
  (Returned_update_model /\ exc.type = "none") =>
    \A n \in Nodes(sheet) :
      SelRow(sheet, n).vary = <<"n">> =>
        LET r == SelRow(sheet, n)
            e == self.parameters.tab[n]
            u == UseCase(sheet, Selected(sheet, n[1], n[2]))
        IN /\ r.fitted = r.guess /\ r.error = "0" /\ r.id = "-"
           /\ e.fitted[u] = r.guess /\ e.guess[u] = r.guess
           /\ e.error[u] = "0" /\ e.id[u] = "-"

\* a build that returned with a fixed argument next to a free one
C8_Witness ==
  /\ Returned_update_model /\ exc.type = "none"
  /\ \E n \in Nodes(sheet) :
       SelRow(sheet, n).vary = <<"n">> /\ SelRow(sheet, n).fitted = "5"
  /\ \E n \in Nodes(sheet) : SelRow(sheet, n).vary = <<"y">>

(***************************************************************************)
(* C9.  Idempotent id assignment.                                          *)
(***************************************************************************)
SameSheetIds == \A k \in 1..Len(sheet) : sheet[k].id = pre.sheet[k].id

\* the id self.parameters holds for the selected use-case of every argument
\* of an active submodel is the id it held when the call began
SameSelectedIds ==
  \A n \in Nodes(sheet) :
    LET u == UseCase(sheet, Selected(sheet, n[1], n[2]))
    IN self.parameters.tab[n].id[u] = pre.parameters.tab[n].id[u]

\* C9: a build that follows a build (the use and vary columns are never
\* edited) gives every (submodel, argument, use-case) the identifier the build
\* before gave it, in the id column of the sheet and in self.parameters, and
\* the same id_list, although it reads the id, fitted and error cells the
\* build and the fit before wrote.
C9_IdempotentIds ==
  (Built /\ pc = "idle" /\ pre.built) =>
    /\ SameSheetIds
    /\ SameSelectedIds
    /\ self.id_list = pre.id_list

\* the arguments whose link chain ends at a fixed argument
LinksToFixed(sh) ==
  { l \in Links(sh) : \E k \in 1..Cardinality(Nodes(sh)) :
       Hop(sh, l, k) \in Nodes(sh) /\ SelRow(sh, Hop(sh, l, k)).vary = <<"n">> }

\* C9 read without the arguments of C7: the identifiers repeat wherever no
\* link chain ends at a fixed argument.
C9_ApartFromLinksToFixed ==
  (Built /\ pc = "idle" /\ pre.built /\ LinksToFixed(sheet) = {}) =>
    /\ SameSheetIds
    /\ SameSelectedIds
    /\ self.id_list = pre.id_list

(***************************************************************************)
(* C10.  Composite expression assembly.                                    *)
(***************************************************************************)
SubmodelAt(sh, r) == CHOOSE s \in ActiveSubmodels(sh) : Rank(sh, s) = r

\* the expected arguments in the order of the traversal
RECURSIVE Traversal(_, _, _)
Traversal(sh, r, j) ==
  IF r > Cardinality(ActiveSubmodels(sh)) THEN <<>>
  ELSE IF j > Len(Declared(SubmodelAt(sh, r))) THEN Traversal(sh, r + 1, 1)
  ELSE <<<<SubmodelAt(sh, r), Declared(SubmodelAt(sh, r))[j]>>>> \o Traversal(sh, r, j + 1)

\* the free arguments, and those of them no link leads to
Free(sh) == SelectSeq(Traversal(sh, 1, 1), LAMBDA n : SelRow(sh, n).vary = <<"y">>)

LinkedTo(sh, n) ==
  \E l \in Links(sh) : \E k \in 1..Cardinality(Nodes(sh)) : Hop(sh, l, k) = n

Independent(sh) == SelectSeq(Free(sh), LAMBDA n : ~LinkedTo(sh, n))

\* scenario 1: one submodel, first argument free (guess 1, min 0, max 10),
\* second argument fixed at 5
Scenario1(sh) ==
  /\ Len(sh) = 2
  /\ sh[1].submodel = "f#1" /\ sh[1].arg = "a" /\ sh[1].use = "y"
  /\ sh[1].vary = <<"y">> /\ sh[1].guess = "1" /\ sh[1].min = "0" /\ sh[1].max = "10"
  /\ sh[2].submodel = "f#1" /\ sh[2].arg = "b" /\ sh[2].use = "y"
  /\ sh[2].vary = <<"n">> /\ sh[2].guess = "5"

\* C10: after an update_model that returns normally the composite expression
\* has one term per active submodel in the order of their first rows, each
\* with the declared arguments in declared order, a fixed argument as its
\* guess and a free one as its id; the free arguments no link leads to are
\* p0, p1, ... in the order of the traversal; p_guess, p_min, p_max (and
\* id_list) list the free arguments in that order; scenario 1 gives
\* f(x, p0, 5), [1], ([0], [10]).
C10_CompositeExpression ==
  (Returned_update_model /\ exc.type = "none") =>
    LET terms == self.model_string.terms
        F == Free(sheet)
        I == Independent(sheet)
    IN /\ Len(terms) = Cardinality(ActiveSubmodels(sheet))
       /\ \A s \in ActiveSubmodels(sheet) :
            /\ terms[Rank(sheet, s)].name = submodel_name(s)
            /\ Len(terms[Rank(sheet, s)].args) = Len(Declared(s))
       /\ \A n \in Nodes(sheet) :
            /\ SelRow(sheet, n).vary = <<"n">> =>
                 Item(sheet, self, n) = SelRow(sheet, n).guess
            /\ SelRow(sheet, n).vary = <<"y">> =>
                 Item(sheet, self, n) = SelRow(sheet, n).id
       /\ \A i \in 1..Len(I) : SelRow(sheet, I[i]).id = pid(i - 1)
       /\ self.p_guess = [i \in 1..Len(F) |-> SelRow(sheet, F[i]).guess]
       /\ self.p_min = [i \in 1..Len(F) |->
            IF SelRow(sheet, F[i]).min = "" THEN "-inf" ELSE SelRow(sheet, F[i]).min]
       /\ self.p_max = [i \in 1..Len(F) |->
            IF SelRow(sheet, F[i]).max = "" THEN "inf" ELSE SelRow(sheet, F[i]).max]
       /\ F # <<>> => self.id_list = [i \in 1..Len(F) |-> SelRow(sheet, F[i]).id]
       /\ Scenario1(sheet) =>
            /\ terms = <<[name |-> "f", args |-> <<"p0", "5">>]>>
            /\ self.p_guess = <<"1">>
            /\ self.p_min = <<"0">> /\ self.p_max = <<"10">>

\* scenario 1 built
C10_Witness == Returned_update_model /\ exc.type = "none" /\ Scenario1(sheet)

(***************************************************************************)
(* C11.  Missing guess.                                                    *)
(***************************************************************************)
\* every link chain of the sheet ends at a selected free or fixed argument
LinksEnd(sh) ==
  \A l \in Links(sh) : \E k \in 1..Cardinality(Nodes(sh)) :
     /\ Hop(sh, l, k) \in Nodes(sh)
     /\ ~IsLink(SelRow(sh, Hop(sh, l, k)).vary)

\* the traversal of the sheet meets no missing argument and no broken link
TraversalEnds(sh) ==
  /\ \A n \in ExpectedArgs(sh) : Selected(sh, n[1], n[2]) # 0
  /\ LinksEnd(sh)

\* the free arguments whose guess cell is empty
FreeWithoutGuess(sh) ==
  { n \in Nodes(sh) : SelRow(sh, n).vary = <<"y">> /\ SelRow(sh, n).guess = "" }

\* C11: when the traversal ends and a free parameter has an empty guess,
\* update_model fails with the validation error that lists the ids of the
\* free parameters without a guess, each once and no other, and a fit that
\* meets this error has not called the solver.
C11_MissingGuessListed ==
  (Built /\ pc = "idle" /\ TraversalEnds(sheet) /\ FreeWithoutGuess(sheet) # {}) =>
    /\ exc.type = "ValueError: no guess value"
    /\ { exc.ids[i] : i \in 1..Len(exc.ids) } =
         { SelRow(sheet, n).id : n \in FreeWithoutGuess(sheet) }
    /\ Len(exc.ids) = Cardinality(FreeWithoutGuess(sheet))
    /\ solver_calls = 0

(***************************************************************************)
(* C12.  Fit write-back.                                                   *)
(***************************************************************************)
Returned_fit == call = "fit" /\ pc = "idle" /\ exc.type = "none"

\* C12: after a fit that returns normally, every argument of an active
\* submodel whose selected use-case carries the id at place i of id_list has
\* in its row the fitted value the solver returned at place i and, as error,
\* the square root of entry i of the covariance diagonal; every free
\* parameter has such a row, and every free argument carries such an id.
C12_FitWriteBack ==
  Returned_fit =>
    /\ \A n \in Nodes(sheet) : \A i \in 1..Len(self.p_fitted) :
         SelRow(sheet, n).id = self.id_list[i] =>
           /\ SelRow(sheet, n).fitted = self.p_fitted[i]
           /\ \E r \in 0..self.p_cov[i] :
                r * r = self.p_cov[i] /\ SelRow(sheet, n).error = ToString(r)
    /\ \A i \in 1..Len(self.p_fitted) :
         \E n \in Nodes(sheet) : SelRow(sheet, n).id = self.id_list[i]
    /\ \A n \in Nodes(sheet) :
         SelRow(sheet, n).vary = <<"y">> =>
           \E i \in 1..Len(self.p_fitted) : SelRow(sheet, n).id = self.id_list[i]
    /\ Len(self.p_cov) = Len(self.p_fitted)

\* a fit that returned with a shared parameter and an independent one that
\* the solver gave different values
C12_Witness ==
  /\ Returned_fit
  /\ \E n \in Nodes(sheet), m \in Nodes(sheet), l \in Nodes(sheet) :
       /\ n # m /\ SelRow(sheet, n).id = "x0" /\ SelRow(sheet, m).id = "x0"
       /\ SelRow(sheet, n).fitted = "7" /\ SelRow(sheet, n).error = "2"
       /\ SelRow(sheet, l).id = "p0"
       /\ SelRow(sheet, l).fitted = "8" /\ SelRow(sheet, l).error = "3"

(***************************************************************************)
(* C13.  Rebuild errors abort fit before the solver.                       *)
(***************************************************************************)
\* C13: when the rebuild inside fit raises MissingArgument, an unresolved
\* link or a missing guess, the solver has not been called, no row of a free
\* parameter has a new fitted or error value and save has not been called;
\* save is called once when fit succeeds with save = True and not otherwise.
C13_RebuildErrorsAbortFit ==
  (call = "fit" /\ pc = "idle") =>
    /\ exc.type \in ValidationErrors =>
         /\ solver_calls = 0
         /\ saves = 0
         /\ \A k \in 1..Len(sheet) :
              sheet[k].id # "-" =>
                /\ sheet[k].fitted = pre.sheet[k].fitted
                /\ sheet[k].error = pre.sheet[k].error
    /\ saves = (IF exc.type = "none" /\ save THEN 1 ELSE 0)
    /\ exc.type = "none" => solver_calls = 1

\* a fit called with save = True that a missing guess aborted after two ids
\* had been given
C13_Witness ==
  /\ call = "fit" /\ pc = "idle" /\ save
  /\ exc.type = "ValueError: no guess value"
  /\ solver_calls = 0 /\ saves = 0
  /\ \E k \in 1..Len(sheet) : sheet[k].id = "p0" /\ sheet[k].fitted = ""
  /\ \E k \in 1..Len(sheet) : sheet[k].id = "p1" /\ sheet[k].guess = ""

(***************************************************************************)
(* C14.  Rebuild after fit.                                                *)
(***************************************************************************)
\* C14: fit ends with a full rebuild, so a fit that returns normally leaves
\* in memory (and in the sheet) what update_model called on the written-back
\* sheet leaves.
C14_FitEndsWithRebuild ==
  Returned_fit =>
    /\ self = update_model(sheet, self).self
    /\ sheet = update_model(sheet, self).sheet

(***************************************************************************)
(* C15.  The shape of the parameter table.                                 *)
(***************************************************************************)
\* the rows of the sheet that carry the (submodel, argument) key, in sheet
\* order
RowsOf(sh, key) ==
  SelectSeq([k \in 1..Len(sh) |-> k],
            LAMBDA k : sh[k].submodel = key[1] /\ sh[k].arg = key[2])

\* C15: after get_parameters every entry of the table has, in every column,
\* one element per row of the sheet that carries its (submodel, argument),
\* element k being the cell of the k-th such row; the entries are those of
\* the rows whose submodel cell is not empty.
C15_ParameterTableShape ==
  (call = "get_parameters") =>
    /\ DOMAIN self.parameters.tab =
         { <<sheet[k].submodel, sheet[k].arg>> :
             k \in { j \in 1..Len(sheet) : sheet[j].submodel # "" } }
    /\ \A key \in DOMAIN self.parameters.tab : \A c \in Cols :
         /\ Len(self.parameters.tab[key][c]) = Len(RowsOf(sheet, key))
         /\ \A k \in 1..Len(RowsOf(sheet, key)) :
              self.parameters.tab[key][c][k] = sheet[RowsOf(sheet, key)[k]][c]

\* get_parameters on a sheet a build has written to, with an empty row and
\* an argument on two rows
C15_Witness ==
  /\ call = "get_parameters"
  /\ \E k \in 1..Len(sheet) : sheet[k].submodel = ""
  /\ \E key \in DOMAIN self.parameters.tab :
       /\ Len(self.parameters.tab[key].use) = 2
       /\ self.parameters.tab[key].id = <<"-", "">>
       /\ self.parameters.tab[key].num = <<0, 2>>

(***************************************************************************)
(* C16.  increasing_monotonicity.                                          *)
(***************************************************************************)
\* the places of dataX that hold the value v
Places(v) == { k \in 1..Len(arrays.dataX) : arrays.dataX[k] = v }

RECURSIVE SumOver(_)
SumOver(places) ==
  IF places = {} THEN 0
  ELSE LET k == CHOOSE k \in places : TRUE
       IN arrays.dataY[k] + SumOver(places \ {k})

\* C16: for non-empty integer lists of equal length the function returns x
\* strictly increasing with every value of dataX once, and at each x the
\* exact mean of the dataY whose dataX is that x; the example of the
\* docstring gives x = [1, 2, 4], y = [7, 7, 9].
C16_ExactMeans ==
  arrays.returned =>
    /\ Len(arrays.x) = Len(arrays.y)
    /\ \A j \in 1..(Len(arrays.x) - 1) : arrays.x[j] < arrays.x[j + 1]
    /\ { arrays.x[j] : j \in 1..Len(arrays.x) } =
         { arrays.dataX[k] : k \in 1..Len(arrays.dataX) }
    /\ \A j \in 1..Len(arrays.x) :
         arrays.y[j] * Cardinality(Places(arrays.x[j])) = SumOver(Places(arrays.x[j]))
    /\ (arrays.dataX = Example.dataX /\ arrays.dataY = Example.dataY) =>
         (arrays.x = <<1, 2, 4>> /\ arrays.y = <<7, 7, 9>>)

(***************************************************************************)
(* C17.  Closed, aligned model.                                            *)
(***************************************************************************)
Identifiers == { pid(k) : k \in 0..(MaxRows + 1) } \cup { xid(k) : k \in 0..(MaxRows + 1) }

\* the items of the composite expression
ItemsOf(S) ==
  UNION { { S.model_string.terms[t].args[i] : i \in 1..Len(S.model_string.terms[t].args) } :
            t \in 1..Len(S.model_string.terms) }

\* the free argument that owns an id
Owner(sh, id) == CHOOSE n \in Nodes(sh) : SelRow(sh, n).vary = <<"y">> /\ SelRow(sh, n).id = id

\* C17: after an update_model that returns normally with a free parameter,
\* every identifier of the composite expression is in id_list exactly once,
\* the six lists have one length, and place i of each is the value of the
\* free argument whose id is id_list[i].
C17_ClosedAlignedModel ==
  (Returned_update_model /\ exc.type = "none" /\ Free(sheet) # <<>>) =>
    /\ \A id \in ItemsOf(self) \cap Identifiers : Count(self.id_list, id) = 1
    /\ \A i \in 1..Len(self.id_list) : Count(self.id_list, self.id_list[i]) = 1
    /\ Len(self.p_guess) = Len(self.id_list)
    /\ Len(self.p_min) = Len(self.id_list)
    /\ Len(self.p_max) = Len(self.id_list)
    /\ Len(self.p_fitted) = Len(self.id_list)
    /\ Len(self.p_error) = Len(self.id_list)
    /\ \A i \in 1..Len(self.id_list) :
         /\ \E n \in Nodes(sheet) :
              SelRow(sheet, n).vary = <<"y">> /\ SelRow(sheet, n).id = self.id_list[i]
         /\ LET row == SelRow(sheet, Owner(sheet, self.id_list[i]))
            IN /\ self.p_guess[i] = row.guess
               /\ self.p_min[i] = (IF row.min = "" THEN "-inf" ELSE row.min)
               /\ self.p_max[i] = (IF row.max = "" THEN "inf" ELSE row.max)
               /\ self.p_fitted[i] = (IF row.fitted = "" THEN "0" ELSE row.fitted)
               /\ self.p_error[i] = (IF row.error = "" THEN "0" ELSE row.error)

\* a link row above its free target and a second free argument: the shared
\* x0 and p0 are both in the expression and in id_list
C17_Witness ==
  /\ Returned_update_model /\ exc.type = "none"
  /\ Len(self.id_list) = 2
  /\ \E l \in Links(sheet) :
       /\ Selected(sheet, l[1], l[2]) < Selected(sheet, Target(SelRow(sheet, l).vary)[1],
                                                  Target(SelRow(sheet, l).vary)[2])
       /\ Item(sheet, self, l) = "x0"
  /\ {"x0", "p0"} \subseteq ItemsOf(self)

(***************************************************************************)
(* C18.  A link to an existing target resolves.                            *)
(***************************************************************************)
\* the vary cell of n names a pair that has a use-case with use = 'y'
TargetExists(sh, n) ==
  Selected(sh, Target(SelRow(sh, n).vary)[1], Target(SelRow(sh, n).vary)[2]) # 0

\* C18: when every link of the sheet names a pair that is in the parameter
\* mapping with a use = 'y' use-case, update_model does not fail with the
\* unresolved-link error, whether or not the linking submodel has an
\* argument of the target's name.
C18_ExistingTargetResolves ==
  (/\ Returned_update_model
   /\ \A n \in Links(sheet) : TargetExists(pre.sheet, n)) =>
     exc.type # "ValueError: Cannot find submodel"

(***************************************************************************)
(* C19.  Input columns are never written.                                  *)
(***************************************************************************)
InputCols == {"submodel", "arg", "use", "vary", "guess", "min", "max"}

\* C19: a call of update_model or fit leaves the submodel, arg, use, vary,
\* guess, min and max cells of every row as they were before the call.
C19_InputColumnsKept ==
  Built =>
    /\ Len(sheet) = Len(pre.sheet)
    /\ \A k \in 1..Len(sheet) : \A c \in InputCols : sheet[k][c] = pre.sheet[k][c]

(***************************************************************************)
(* C20.  Write-backs hit only the selected use-case row.                   *)
(***************************************************************************)
\* row k is the selected use-case of an expected argument of an active submodel
IsSelectedRow(sh, k) ==
  \E n \in Nodes(sh) : n = <<sh[k].submodel, sh[k].arg>> /\ Selected(sh, n[1], n[2]) = k

\* C20: after update_model or fit a row that is not the first use = 'y' row
\* of an expected argument of an active submodel has an empty id and the
\* fitted and error cells it had before the call; after a normal return the
\* id of every argument is in its selected row, and after fit the fitted and
\* error values of a free argument are in that row too.
C20_WritesHitSelectedRow ==
  Built =>
    /\ \A k \in 1..Len(sheet) :
         ~IsSelectedRow(sheet, k) =>
           /\ sheet[k].id = ""
           /\ sheet[k].fitted = pre.sheet[k].fitted
           /\ sheet[k].error = pre.sheet[k].error
    /\ (pc = "idle" /\ exc.type = "none") =>
         \A n \in Nodes(sheet) :
           /\ SelRow(sheet, n).id \in {"-", Item(sheet, self, n)}
           /\ SelRow(sheet, n).vary = <<"n">> => SelRow(sheet, n).id = "-"
           /\ SelRow(sheet, n).vary = <<"y">> => SelRow(sheet, n).id = Item(sheet, self, n)
           /\ SelRow(sheet, n).id # ""
           /\ (Returned_fit /\ SelRow(sheet, n).id # "-") =>
                /\ SelRow(sheet, n).fitted =
                     self.p_fitted[index(self.id_list, SelRow(sheet, n).id)]
                /\ SelRow(sheet, n).error =
                     self.p_error[index(self.id_list, SelRow(sheet, n).id)]

\* fit has returned on a sheet where a switched-off use-case row with old
\* fitted, error and id cells stands above the selected row of its argument
C20_Witness ==
  /\ Returned_fit
  /\ \E k, j \in 1..Len(sheet) :
       /\ k < j
       /\ sheet[k].submodel = sheet[j].submodel /\ sheet[k].arg = sheet[j].arg
       /\ sheet[k].use = "n" /\ sheet[k].fitted = "7" /\ sheet[k].error = "2"
       /\ sheet[k].id = ""
       /\ IsSelectedRow(sheet, j) /\ sheet[j].id = "-"
  /\ \E n \in Nodes(sheet) : SelRow(sheet, n).id = "p0" /\ SelRow(sheet, n).fitted # ""

====
